---------------------------- MODULE Spec2Model ----------------------------
(***************************************************************************)
(* Model of src/src/algorithm/ilrma.py: the ILRMA engine (ILRMAbase,       *)
(* GaussILRMA) and projection_back.                                        *)
(*                                                                         *)
(* Numbers.  A float is modelled as a fixed-point number: the integer n    *)
(* stands for n / Scale, every operation rounds its result down to the     *)
(* grid, and a result beyond +-Huge or a division by zero becomes the      *)
(* non-finite value NaN, which every later operation propagates and every  *)
(* comparison answers FALSE to (as IEEE comparisons with nan do).          *)
(* A complex number is a record [re, im] of two such numbers.              *)
(*                                                                         *)
(* Indices.  The source counts from 0, sequences here count from 1:        *)
(* source_idx = n in the source is source_idx = n + 1 here; reference_id   *)
(* keeps the source's 0-based value and is shifted where it indexes.       *)
(*                                                                         *)
(* Layout.  X[channel][bin][frame], W[bin][source][channel],               *)
(* T[source][bin][basis], V[source][basis][frame], as in the source.       *)
(***************************************************************************)
EXTENDS Integers, Sequences, FiniteSets, TLC

\* ------------------------------------------------------------- bounds
Scale == 16       \* fixed-point grid: n stands for n / Scale
MaxIter == 2      \* largest iteration count passed to __call__
MaxSeed == 7      \* seeds of the random generator: 0 .. MaxSeed
MaxBases == 1     \* n_bases in 1 .. MaxBases
MaxRef == 1       \* reference_id in 0 .. MaxRef

\* ------------------------------------------------------------- numbers
Huge == Scale * Scale * Scale
NaN == Huge + 1
None == <<>>

Fin(x) == IF x > Huge \/ x < -Huge THEN NaN ELSE x

RNeg(a) == IF a = NaN THEN NaN ELSE -a
RAdd(a, b) == IF a = NaN \/ b = NaN THEN NaN ELSE Fin(a + b)
RSub(a, b) == IF a = NaN \/ b = NaN THEN NaN ELSE Fin(a - b)
RMul(a, b) == IF a = NaN \/ b = NaN THEN NaN ELSE Fin((a * b) \div Scale)
RDiv(a, b) ==
    IF a = NaN \/ b = NaN \/ b = 0 THEN NaN
    ELSE IF b > 0 THEN Fin((a * Scale) \div b)
    ELSE Fin(((-a) * Scale) \div (-b))
RLt(a, b) == a # NaN /\ b # NaN /\ a < b
RGt(a, b) == a # NaN /\ b # NaN /\ a > b

RECURSIVE SqrtSearch(_, _, _)
SqrtSearch(n, lo, hi) ==
    IF lo >= hi THEN lo
    ELSE LET mid == (lo + hi + 1) \div 2
         IN IF mid * mid <= n THEN SqrtSearch(n, mid, hi)
            ELSE SqrtSearch(n, lo, mid - 1)
ISqrt(n) == SqrtSearch(n, 0, 2 * Huge)
RSqrt(a) == IF a = NaN \/ a < 0 THEN NaN ELSE ISqrt(a * Scale)

Cx(a, b) == [re |-> a, im |-> b]
CZero == Cx(0, 0)
COne == Cx(Scale, 0)
CNaN == Cx(NaN, NaN)
CIsNaN(x) == x.re = NaN \/ x.im = NaN
CAdd(x, y) == Cx(RAdd(x.re, y.re), RAdd(x.im, y.im))
CMul(x, y) ==
    Cx(RSub(RMul(x.re, y.re), RMul(x.im, y.im)),
       RAdd(RMul(x.re, y.im), RMul(x.im, y.re)))
CConj(x) == Cx(x.re, RNeg(x.im))
CNeg(x) == Cx(RNeg(x.re), RNeg(x.im))
CDivR(x, r) == Cx(RDiv(x.re, r), RDiv(x.im, r))
CAbs(x) == IF CIsNaN(x) THEN NaN ELSE Fin(ISqrt(x.re * x.re + x.im * x.im))
CAbs2(x) == LET a == CAbs(x) IN RMul(a, a)
CDiv(x, y) ==
    IF CIsNaN(x) \/ CIsNaN(y) THEN CNaN
    ELSE LET d == y.re * y.re + y.im * y.im
         IN IF d = 0 THEN CNaN
            ELSE Cx(Fin(((x.re * y.re + x.im * y.im) * Scale) \div d),
                    Fin(((x.im * y.re - x.re * y.im) * Scale) \div d))
CSqrt(z) ==
    IF CIsNaN(z) THEN CNaN
    ELSE LET m == CAbs(z)
             r == RSqrt(RDiv(RAdd(m, z.re), 2 * Scale))
             i == RSqrt(RDiv(RSub(m, z.re), 2 * Scale))
         IN Cx(r, IF z.im < 0 THEN RNeg(i) ELSE i)

\* ------------------------------------------------------------- tensors
\* An array is a tuple; Eager turns a function over 1..n into the tuple of
\* its values.
Eager(f) == f \o <<>>
RECURSIVE RSum(_)
RSum(s) == IF s = <<>> THEN 0 ELSE RAdd(s[1], RSum(Tail(s)))
RECURSIVE CSum(_)
CSum(s) == IF s = <<>> THEN CZero ELSE CAdd(s[1], CSum(Tail(s)))

\* A @ B on complex matrices (sequences of rows).
CMatMul(A, B) ==
    Eager([r \in 1..Len(A) |->
        Eager([c \in 1..Len(B[1]) |->
            CSum(Eager([k \in 1..Len(B) |-> CMul(A[r][k], B[k][c])]))])])
\* A @ B on real matrices.
RMatMul(A, B) ==
    Eager([r \in 1..Len(A) |->
        Eager([c \in 1..Len(B[1]) |->
            RSum(Eager([k \in 1..Len(B) |-> RMul(A[r][k], B[k][c])]))])])
Transpose(A) == Eager([c \in 1..Len(A[1]) |-> Eager([r \in 1..Len(A) |-> A[r][c]])])
Hermite(A) == Eager([c \in 1..Len(A[1]) |-> Eager([r \in 1..Len(A) |-> CConj(A[r][c])])])
Eye(n) == Eager([r \in 1..n |-> Eager([c \in 1..n |-> IF r = c THEN COne ELSE CZero])])


\* np.linalg.inv of one square complex matrix: the adjugate over the
\* determinant (what the LU solve computes, in exact arithmetic).
Minor(A, i, j) ==
    Eager([r \in 1..(Len(A) - 1) |->
        Eager([c \in 1..(Len(A) - 1) |->
            A[IF r < i THEN r ELSE r + 1][IF c < j THEN c ELSE c + 1]])])
RECURSIVE Det(_)
Det(A) ==
    IF Len(A) = 0 THEN COne
    ELSE IF Len(A) = 1 THEN A[1][1]
    ELSE CSum(Eager([c \in 1..Len(A) |->
            LET t == CMul(A[1][c], Det(Minor(A, 1, c)))
            IN IF c % 2 = 1 THEN t ELSE CNeg(t)]))
MatHasNaN(A) == \E r \in 1..Len(A) : \E c \in 1..Len(A[r]) : CIsNaN(A[r][c])
Singular(A) == ~MatHasNaN(A) /\ Det(A) = CZero
Inverse(A) ==
    LET d == Det(A)
    IN Eager([r \in 1..Len(A) |->
          Eager([c \in 1..Len(A) |->
              LET m == Det(Minor(A, c, r))
              IN CDiv(IF (r + c) % 2 = 0 THEN m ELSE CNeg(m), d)])])
\* The outcomes of a batched np.linalg.inv: "LinAlgError" when a matrix of
\* the batch is exactly singular; on non-finite entries LAPACK may or may
\* not report a zero pivot, so both outcomes are possible.
InvOutcomes(batch) ==
    IF \E i \in 1..Len(batch) : Singular(batch[i]) THEN {"LinAlgError"}
    ELSE IF \E i \in 1..Len(batch) : MatHasNaN(batch[i]) THEN {"ok", "LinAlgError"}
    ELSE {"ok"}

\* ------------------------------------------------------------- separate
\* ndarray.transpose(1,0,2): swaps the first two axes.
Transpose102(A) == Eager([i \in 1..Len(A[1]) |-> Eager([n \in 1..Len(A) |-> A[n][i]])])
\* A demixing filter argument: one matrix per bin (3-D) or a single matrix
\* (2-D) that matmul broadcasts over the bins.
Stack(W) == [ndim |-> 3, a |-> W]
Single(W) == [ndim |-> 2, a |-> W]

\* separate without the transpose back to (channels, bins, frames).
separateNoTransposeBack(X, F) ==
    LET inp == Transpose102(X)
    IN Eager([i \in 1..Len(inp) |->
          CMatMul(IF F.ndim = 3 THEN F.a[i] ELSE F.a, inp[i])])
separate(X, F) ==
    LET inp == Transpose102(X)
        estimation_ == Eager([i \in 1..Len(inp) |->
                          CMatMul(IF F.ndim = 3 THEN F.a[i] ELSE F.a, inp[i])])
    IN Transpose102(estimation_)

\* np.tile(W, reps=(n_bins, 1, 1))
Tile(W, n) == Eager([i \in 1..n |-> W])

\* ------------------------------------------------------ projection_back
\* projection_back without the guard on a zero denominator.
projection_back_unguarded(Yest, reference) ==
    Eager([n \in 1..Len(Yest) |->
        Eager([i \in 1..Len(Yest[n]) |->
            CDivR(CSum(Eager([j \in 1..Len(Yest[n][i]) |->
                      CMul(Yest[n][i][j], CConj(reference[i][j]))])),
                  RSum(Eager([j \in 1..Len(Yest[n][i]) |->
                      CAbs2(Yest[n][i][j])])))])])
projection_back(Yest, reference) ==
    Eager([n \in 1..Len(Yest) |->
        Eager([i \in 1..Len(Yest[n]) |->
            LET numerator == CSum(Eager([j \in 1..Len(Yest[n][i]) |->
                                CMul(Yest[n][i][j], CConj(reference[i][j]))]))
                denominator == RSum(Eager([j \in 1..Len(Yest[n][i]) |->
                                CAbs2(Yest[n][i][j])]))
            IN IF RGt(denominator, 0) THEN CDivR(numerator, denominator)
               ELSE COne])])

\* Y * scale[..., np.newaxis], the conjugate forgotten.
ApplyScaleNoConj(Yest, sc) ==
    Eager([n \in 1..Len(Yest) |->
        Eager([i \in 1..Len(Yest[n]) |->
            Eager([j \in 1..Len(Yest[n][i]) |-> CMul(Yest[n][i][j], sc[n][i])])])])
\* Y * scale[..., np.newaxis].conj()
ApplyScale(Yest, sc) ==
    Eager([n \in 1..Len(Yest) |->
        Eager([i \in 1..Len(Yest[n]) |->
            Eager([j \in 1..Len(Yest[n][i]) |-> CMul(Yest[n][i][j], CConj(sc[n][i]))])])])

\* ------------------------------------------------- update_source_model
\* A[A < eps] = eps, elementwise on a matrix.
Floor(A, e) ==
    Eager([r \in 1..Len(A) |-> Eager([c \in 1..Len(A[r]) |->
        IF RLt(A[r][c], e) THEN e ELSE A[r][c]])])
\* Elementwise operations on real matrices.
EDiv(A, B) ==
    Eager([r \in 1..Len(A) |-> Eager([c \in 1..Len(A[r]) |-> RDiv(A[r][c], B[r][c])])])
EMul(A, B) ==
    Eager([r \in 1..Len(A) |-> Eager([c \in 1..Len(A[r]) |-> RMul(A[r][c], B[r][c])])])
ESquare(A) ==
    Eager([r \in 1..Len(A) |-> Eager([c \in 1..Len(A[r]) |-> RMul(A[r][c], A[r][c])])])
EInv(A) ==
    Eager([r \in 1..Len(A) |-> Eager([c \in 1..Len(A[r]) |-> RDiv(Scale, A[r][c])])])
ESqrt(A) ==
    Eager([r \in 1..Len(A) |-> Eager([c \in 1..Len(A[r]) |-> RSqrt(A[r][c])])])
EAbs2(A) ==
    Eager([r \in 1..Len(A) |-> Eager([c \in 1..Len(A[r]) |-> CAbs2(A[r][c])])])
Power(Yest) ==
    Eager([n \in 1..Len(Yest) |-> EAbs2(Yest[n])])

\* The floored power model of the basis half-step (lines 106-107).
BasisTV(Tn, Vn, e) == Floor(RMatMul(Tn, Vn), e)
\* One source's basis half-step: the new T[n] (lines 105-112).
BasisStep(P, Tn, Vn, e) ==
    LET V_transpose == Transpose(Vn)
        TVf == BasisTV(Tn, Vn, e)
        division == EDiv(P, ESquare(TVf))
        TV_inverse == EInv(TVf)
        TVV == Floor(RMatMul(TV_inverse, V_transpose), e)
        ratio == EDiv(RMatMul(division, V_transpose), TVV)
    IN Floor(EMul(Tn, ESqrt(ratio)), e)
\* The floored power model of the activation half-step (lines 116-117).
ActivationTV(Tn, Vn, e) == Floor(RMatMul(Tn, Vn), e)
\* One source's activation half-step: the new V[n] (lines 115-122).
ActivationStep(P, Tn, Vn, e) ==
    LET T_transpose == Transpose(Tn)
        TVf == ActivationTV(Tn, Vn, e)
        division == EDiv(P, ESquare(TVf))
        TV_inverse == EInv(TVf)
        TTV == Floor(RMatMul(T_transpose, TV_inverse), e)
        ratio == EDiv(RMatMul(T_transpose, division), TTV)
    IN Floor(EMul(Vn, ESqrt(ratio)), e)

\* ------------------------------------------------- update_space_model
\* TV = self.base @ self.activation (line 132), per source.
PowerModel(Tb, Va) == Eager([n \in 1..Len(Tb) |-> RMatMul(Tb[n], Va[n])])
\* U (lines 134-140): per source and bin, the frame mean of x x^H / R.
Covariance(X, R) ==
    Eager([n \in 1..Len(R) |->
        Eager([i \in 1..Len(X[1]) |->
            Eager([a \in 1..Len(X) |->
                Eager([b \in 1..Len(X) |->
                    CDivR(CSum(Eager([j \in 1..Len(X[1][i]) |->
                              CDivR(CMul(X[a][i][j], CConj(X[b][i][j])), R[n][i][j])])),
                          Len(X[1][i]) * Scale)])])])])
\* W @ U_n, per bin (line 145).
WUOf(W, Un) == Eager([i \in 1..Len(W) |-> CMatMul(W[i], Un[i])])
\* The new row of one bin (lines 147-151): column n of the inverse,
\* conjugated, over the square root of w U_n conj(w).
RowOf(WUi, Uni, n) ==
    LET inv == Inverse(WUi)
        w == Eager([r \in 1..Len(inv) |-> CConj(inv[r][n])])
        wc == Eager([r \in 1..Len(w) |-> <<CConj(w[r])>>])
        wUw == CMatMul(CMatMul(<<w>>, Uni), wc)
        denominator == CSqrt(wUw[1][1])
    IN Eager([c \in 1..Len(w) |-> CDiv(w[c], denominator)])
\* The row update computed from the initial (identity) filter instead of
\* the filter as it stands: what updating all rows in parallel does in the
\* first call.
RowWriteFromStale(W, Un, n) ==
    LET WU == WUOf(Tile(Eye(Len(W[1])), Len(W)), Un)
    IN Eager([i \in 1..Len(W) |-> [W[i] EXCEPT ![n] = RowOf(WU[i], Un[i], n)]])
\* W after W[:, source_idx, :] = w / denominator.
RowWrite(W, Un, n) ==
    LET WU == WUOf(W, Un)
    IN Eager([i \in 1..Len(W) |-> [W[i] EXCEPT ![n] = RowOf(WU[i], Un[i], n)]])

\* ------------------------------------------------------- refit (88-92)
XXOf(X) ==
    LET X_ == Transpose102(X)
    IN Eager([i \in 1..Len(X_) |-> CMatMul(X_[i], Hermite(X_[i]))])
Refit(Yh, X) ==
    LET Y_ == Transpose102(Yh)
        X_ == Transpose102(X)
        XX == XXOf(X)
    IN Eager([i \in 1..Len(X_) |->
          CMatMul(CMatMul(Y_[i], Hermite(X_[i])), Inverse(XX[i]))])

\* ------------------------------------------------------ np.random.rand
RandMod == 16
RandMul == 5
RandInc == 3
NextRng(s) == (RandMul * s + RandInc) % RandMod
RECURSIVE RngAt(_, _)
RngAt(s, k) == IF k = 0 THEN s ELSE RngAt(NextRng(s), k - 1)
\* The k-th draw from state s, a value of [0, 1).
Draw(s, k) == (RngAt(s, k) * Scale) \div RandMod
\* np.random.rand(a, b, c) from state s: the draws in row-major order.
Rand3(s, a, b, c) ==
    Eager([x \in 1..a |-> Eager([y \in 1..b |-> Eager([z \in 1..c |->
        Draw(s, ((x - 1) * b + (y - 1)) * c + z)])])])

\* ------------------------------------------------------------- inputs
Half == Scale \div 2
R1(x) == Cx(x * Scale, 0)
I1(x) == Cx(0, x * Scale)
MixA == << << <<R1(1), R1(0)>> >>, << <<R1(0), R1(1)>> >> >>
MixB == << << <<R1(2), I1(1)>> >>, << <<R1(1), R1(1)>> >> >>
MixC == << << <<R1(1), R1(0)>>, <<R1(1), I1(1)>> >>,
           << <<R1(1), R1(1)>>, <<R1(0), R1(1)>> >> >>
MixMono == << << <<R1(1), I1(1)>>, <<Cx(Half, 0), R1(1)>> >> >>
MixSilent == << << <<R1(0), R1(0)>> >>, << <<R1(0), R1(0)>> >> >>
MixDup == << << <<R1(1), I1(1)>> >>, << <<R1(1), I1(1)>> >> >>
Mixtures == {MixA, MixB, MixC, MixMono, MixSilent, MixDup}
EpsChoices == {e \in 1..(Scale - 1) : e * e >= Scale /\ (e - 2) * (e - 2) < Scale}

\* ------------------------------------------------------------- state
VARIABLES
    pc,            \* position of the run inside __call__ / update_once
    err,           \* the exception that ended the run, "" while none
    n_bases, eps, reference_id,   \* configuration set by __init__
    rng,           \* state of the global np.random generator
    call_input, iteration, idx,   \* __call__'s parameters and loop index
    input,         \* self.input
    n_sources, n_bins, n_frames,  \* self.n_sources (= n_channels), ...
    demix_filter,  \* self.demix_filter
    base,          \* self.base
    bases,         \* self.bases
    activation,    \* self.activation
    estimation,    \* self.estimation
    T,             \* the local T of update_source_model
    TV,            \* the local TV last computed (power model used as divisor)
    U, source_idx, \* locals of update_space_model
    Y, scale, Y_hat,  \* locals of update_once
    output         \* value returned by __call__

config == <<n_bases, eps, reference_id>>
caller == <<call_input, iteration>>
dims == <<n_sources, n_bins, n_frames>>
locals == <<T, TV, U, source_idx, Y, scale, Y_hat>>
tensors == <<demix_filter, base, bases, activation, estimation>>
vars == <<pc, err, config, rng, caller, idx, input, dims, tensors, locals, output>>

\* The engine after GaussILRMA.__init__ (lines 6-10, 68-71).
Init ==
    /\ pc = "idle"
    /\ err = ""
    /\ n_bases \in 1..MaxBases
    /\ eps \in EpsChoices
    /\ reference_id \in 0..MaxRef
    /\ rng \in 0..MaxSeed
    /\ call_input = None /\ iteration = 0 /\ idx = 0
    /\ input = None
    /\ n_sources = 0 /\ n_bins = 0 /\ n_frames = 0
    /\ demix_filter = None /\ base = None /\ bases = None
    /\ activation = None /\ estimation = None
    /\ T = None /\ TV = None /\ U = None /\ source_idx = 0
    /\ Y = None /\ scale = None /\ Y_hat = None
    /\ output = None

\* __call__ entry (line 38): self.input = input.
Call ==
    /\ pc = "idle"
    /\ \E x \in Mixtures \cup {None}, k \in 0..MaxIter :
          /\ call_input' = x
          /\ iteration' = k
          /\ input' = x
    /\ pc' = "reset"
    /\ UNCHANGED <<err, config, rng, idx, dims, tensors, locals, output>>

\* _reset drawing from the generator before it checks the input.
ResetChecksLate ==
    /\ pc = "reset"
    /\ input = None
    /\ base' = <<<<<<Draw(rng, 1)>>>>>>
    /\ rng' = NextRng(rng)
    /\ pc' = "failed"
    /\ err' = "AssertionError"
    /\ UNCHANGED <<config, caller, idx, input, dims, demix_filter, bases,
                   activation, estimation, locals, output>>

\* _reset (lines 12-29).
Reset ==
    /\ pc = "reset"
    /\ IF input = None
       THEN /\ pc' = "failed"
            /\ err' = "AssertionError"
            /\ UNCHANGED <<rng, idx, dims, tensors>>
       ELSE LET X == input
                n_channels == Len(X)
                nb == Len(X[1])
                nf == Len(X[1][1])
                W == Eye(n_channels)
            IN /\ n_sources' = n_channels
               /\ n_bins' = nb
               /\ n_frames' = nf
               /\ demix_filter' = Tile(W, nb)
               /\ base' = Rand3(rng, n_channels, nb, n_bases)
               /\ activation' =
                     Rand3(RngAt(rng, n_channels * nb * n_bases),
                           n_channels, n_bases, nf)
               /\ rng' = RngAt(rng, n_channels * nb * n_bases
                                    + n_channels * n_bases * nf)
               /\ estimation' = separate(X, Single(W))
               /\ idx' = 0
               /\ pc' = "loop"
               /\ UNCHANGED <<err, bases>>
    /\ UNCHANGED <<config, caller, input, locals, output>>

\* The loop stopping one step early.
LoopStopsEarly(i, k) == i + 1 < k
\* for idx in range(iteration) (line 42): another step is due.
LoopContinues(i, k) == i < k

\* update_source_model, basis half-step (lines 95-112): the first call of
\* update_once (line 78).
UpdateBasis ==
    /\ pc = "loop" /\ LoopContinues(idx, iteration)
    /\ LET P == Power(separate(input, Stack(demix_filter)))
       IN /\ T' = Eager([n \in 1..Len(base) |->
                      BasisStep(P[n], base[n], activation[n], eps)])
          /\ TV' = Eager([n \in 1..Len(base) |->
                      BasisTV(base[n], activation[n], eps)])
    /\ pc' = "activation"
    /\ UNCHANGED <<err, config, rng, caller, idx, input, dims, tensors,
                   U, source_idx, Y, scale, Y_hat, output>>

\* update_source_model, activation half-step and the stores (lines 114-124).
UpdateActivation ==
    /\ pc = "activation"
    /\ LET P == Power(separate(input, Stack(demix_filter)))
       IN /\ activation' = Eager([n \in 1..Len(T) |->
                      ActivationStep(P[n], T[n], activation[n], eps)])
          /\ TV' = Eager([n \in 1..Len(T) |->
                      ActivationTV(T[n], activation[n], eps)])
    /\ bases' = T
    /\ pc' = "space"
    /\ UNCHANGED <<err, config, rng, caller, idx, input, dims, demix_filter,
                   base, estimation, T, U, source_idx, Y, scale, Y_hat, output>>

\* update_space_model up to its loop (lines 126-140).
SpaceBegin ==
    /\ pc = "space"
    /\ TV' = PowerModel(base, activation)
    /\ U' = Covariance(input, TV')
    /\ source_idx' = 1
    /\ pc' = "rows"
    /\ UNCHANGED <<err, config, rng, caller, idx, input, dims, tensors,
                   T, Y, scale, Y_hat, output>>

\* One pass of the loop over sources (lines 142-151).
SpaceRow ==
    /\ pc = "rows" /\ source_idx <= n_sources
    /\ \E outcome \in InvOutcomes(WUOf(demix_filter, U[source_idx])) :
          IF outcome = "ok"
          THEN /\ demix_filter' = RowWrite(demix_filter, U[source_idx], source_idx)
               /\ source_idx' = source_idx + 1
               /\ UNCHANGED <<pc, err>>
          ELSE /\ pc' = "failed"
               /\ err' = outcome
               /\ UNCHANGED <<demix_filter, source_idx>>
    /\ UNCHANGED <<config, rng, caller, idx, input, dims, base, bases,
                   activation, estimation, T, TV, U, Y, scale, Y_hat, output>>

\* The re-separation done in place, into the array of the mixture.
SeparateInPlace ==
    /\ pc = "rows" /\ source_idx > n_sources
    /\ Y' = separate(input, Stack(demix_filter))
    /\ input' = Y'
    /\ pc' = "scale"
    /\ UNCHANGED <<err, config, rng, caller, idx, dims, tensors,
                   T, TV, U, source_idx, scale, Y_hat, output>>

\* The end of update_space_model (line 153) and the re-separation of
\* update_once (lines 81-82).
Separate ==
    /\ pc = "rows" /\ source_idx > n_sources
    /\ Y' = separate(input, Stack(demix_filter))
    /\ pc' = "scale"
    /\ UNCHANGED <<err, config, rng, caller, idx, input, dims, tensors,
                   T, TV, U, source_idx, scale, Y_hat, output>>

\* Scale correction (lines 84-86).
ScaleCorrect ==
    /\ pc = "scale"
    /\ IF reference_id + 1 > Len(input)
       THEN /\ pc' = "failed"
            /\ err' = "IndexError"
            /\ UNCHANGED <<scale, Y_hat>>
       ELSE /\ scale' = projection_back(Y, input[reference_id + 1])
            /\ Y_hat' = ApplyScale(Y, scale')
            /\ pc' = "refit"
            /\ UNCHANGED err
    /\ UNCHANGED <<config, rng, caller, idx, input, dims, tensors,
                   T, TV, U, source_idx, Y, output>>

\* The least-squares refit that ends update_once (lines 88-93); the loop
\* of __call__ then advances (line 42).
RefitFilter ==
    /\ pc = "refit"
    /\ \E outcome \in InvOutcomes(XXOf(input)) :
          IF outcome = "ok"
          THEN /\ demix_filter' = Refit(Y_hat, input)
               /\ estimation' = Y_hat
               /\ idx' = idx + 1
               /\ pc' = "loop"
               /\ UNCHANGED err
          ELSE /\ pc' = "failed"
               /\ err' = outcome
               /\ UNCHANGED <<demix_filter, estimation, idx>>
    /\ UNCHANGED <<config, rng, caller, input, dims, base, bases, activation,
                   locals, output>>

\* After the loop (lines 45-48): the final separation is returned.
Return ==
    /\ pc = "loop" /\ ~LoopContinues(idx, iteration)
    /\ output' = separate(call_input, Stack(demix_filter))
    /\ pc' = "done"
    /\ UNCHANGED <<err, config, rng, caller, idx, input, dims, tensors, locals>>

Next ==
    \/ Call
    \/ Reset
    \/ UpdateBasis
    \/ UpdateActivation
    \/ SpaceBegin
    \/ SpaceRow
    \/ Separate
    \/ ScaleCorrect
    \/ RefitFilter
    \/ Return

Spec == Init /\ [][Next]_vars


\* ------------------------------------------- projection_back on its own
\* The pure function applied to estimates and references drawn from small
\* sets: 2 sources (channels), 2 bins, 2 frames.
Tiny == Cx(1, 0)
EstimateRows == {<<CZero, CZero>>, <<R1(1), CZero>>, <<I1(1), R1(1)>>,
                 <<Tiny, CZero>>}
ReferenceRows == {<<CZero, CZero>>, <<R1(1), I1(1)>>}
FnEstimates == {<<a, b>> : a \in [1..2 -> EstimateRows], b \in [1..2 -> EstimateRows]}
FnMixtures == {<<a, b>> : a \in [1..2 -> ReferenceRows], b \in [1..2 -> ReferenceRows]}

InitFn ==
    /\ pc = "fn_start"
    /\ err = ""
    /\ n_bases = 1
    /\ eps \in EpsChoices
    /\ rng = 0
    /\ input \in FnMixtures
    /\ reference_id \in {r \in 0..MaxRef : r < Len(input)}
    /\ call_input = input /\ iteration = 0 /\ idx = 0
    /\ n_sources = Len(input) /\ n_bins = 2 /\ n_frames = 2
    /\ demix_filter = None /\ base = None /\ bases = None
    /\ activation = None /\ estimation = None
    /\ T = None /\ TV = None /\ U = None /\ source_idx = 0
    /\ Y \in FnEstimates
    /\ scale = None /\ Y_hat = None
    /\ output = None

\* scale = projection_back(Y, reference=X[self.reference_id]) (line 84).
FnProjectionBack ==
    /\ pc = "fn_start"
    /\ scale' = projection_back(Y, input[reference_id + 1])
    /\ pc' = "fn_done"
    /\ UNCHANGED <<err, config, rng, caller, idx, input, dims, tensors,
                   T, TV, U, source_idx, Y, Y_hat, output>>

NextFn == FnProjectionBack

SpecFn == InitFn /\ [][NextFn]_vars

\* ============================================================== claims
Finite3(A) ==
    \A n \in 1..Len(A) : \A i \in 1..Len(A[n]) : \A j \in 1..Len(A[n][i]) :
        ~CIsNaN(A[n][i][j])
\* Every entry of a real 3-axis tensor is a number >= e.
AllGe(A, e) ==
    \A n \in 1..Len(A) : \A i \in 1..Len(A[n]) : \A j \in 1..Len(A[n][i]) :
        A[n][i][j] # NaN /\ A[n][i][j] >= e
\* update_source_model has returned at least once in this run.
SourceModelReturned ==
    \/ pc \in {"space", "rows", "scale", "refit"}
    \/ pc \in {"loop", "activation", "done"} /\ idx >= 1

\* C1: after update_source_model returns, in every iteration, every entry
\* of the engine's basis tensor (self.base, the attribute update_space_model
\* reads) and of its activation tensor is >= eps.
C1_FloorInvariant ==
    SourceModelReturned => AllGe(base, eps) /\ AllGe(activation, eps)

\* C2: the power model R that update_space_model divides by is the product
\* of the basis and the activation that update_source_model produced in the
\* same iteration (the refined pair T, V of line 124).
C2_RefinedPowerModel ==
    pc = "rows" => TV = PowerModel(bases, activation)

\* C3: wherever the power model R = T*V is used as a divisor (both
\* half-steps of update_source_model, and XX / R in update_space_model) no
\* entry of it is below eps.
C3_DivisorFloored ==
    pc \in {"activation", "space", "rows"} => AllGe(TV, eps)

IdentityFilter == Tile(Eye(n_sources), n_bins)
FiniteFilter(W) == \A i \in 1..Len(W) : ~MatHasNaN(W[i])

\* C4 (as claimed): whenever the stored filter has just been written (after
\* _reset, after a row overwrite of update_space_model, after the refit of
\* update_once) the stored estimate equals separate(X, stored filter).
C4_EstimateFollowsFilter ==
    (\/ pc = "loop"
     \/ pc = "rows" /\ source_idx > 1)
    => estimation = separate(input, Stack(demix_filter))

\* C4 (amended): the stored estimate is written by _reset, where it equals
\* separate(X, filter), and by the last statement of update_once, where it
\* is Y * conj(scale) for Y = separate(X, filter left by update_space_model)
\* and scale = projection_back(Y, X[reference_id]); the row overwrites of
\* update_space_model and every other step leave it as it was.
C4_EstimateWrittenAtStepEnd ==
    [][ /\ (pc = "reset" /\ pc' = "loop")
            => estimation' = separate(input', Stack(demix_filter'))
        /\ (pc = "refit" /\ pc' = "loop")
            => LET Ysep == separate(input, Stack(demix_filter))
                   sc == projection_back(Ysep, input[reference_id + 1])
               IN \A n \in 1..Len(Ysep) : \A i \in 1..Len(Ysep[n]) :
                     \A j \in 1..Len(Ysep[n][i]) :
                        estimation'[n][i][j]
                            = CMul(Ysep[n][i][j], CConj(sc[n][i]))
        /\ ~(pc = "reset" /\ pc' = "loop") /\ ~(pc = "refit" /\ pc' = "loop")
            => estimation' = estimation ]_vars
C4_Witness ==
    /\ pc = "loop" /\ idx >= 1
    /\ Finite3(estimation)
    /\ estimation # input
    /\ \E n \in 1..Len(scale) : \E i \in 1..Len(scale[n]) :
          scale[n][i].im # 0 /\ scale[n][i].im # NaN

\* C5: once __call__ has stored the mixture, no step changes it: in every
\* later state the engine's input equals the tensor passed to __call__.
C5_InputFixed ==
    pc # "idle" => input = call_input
C5_Witness ==
    /\ pc = "done" /\ idx >= 2
    /\ input = call_input
    /\ FiniteFilter(demix_filter)
    /\ demix_filter # IdentityFilter

\* C6: a run initializes once, then makes exactly `iteration` steps, each
\* in the order source-model update, spatial-model update, re-separation
\* with the new filter, scale correction, refit; it leaves the loop only
\* after the last step and returns the separation by the final filter.
C6_RunOrder ==
    [][ /\ (pc = "loop" /\ idx < iteration) => pc' = "activation"
        /\ (pc' = "done") => /\ pc = "loop" /\ idx = iteration
                             /\ output' = separate(call_input, Stack(demix_filter))
        /\ (pc' = "activation") => pc = "loop"
        /\ (pc' = "space") => pc = "activation"
        /\ (pc' = "rows") => pc \in {"space", "rows"}
        /\ (pc' = "scale") => /\ pc = "rows" /\ source_idx = n_sources + 1
                              /\ Y' = separate(input, Stack(demix_filter))
        /\ (pc' = "refit") => /\ pc = "scale"
                              /\ scale' = projection_back(Y, input[reference_id + 1])
        /\ (pc' = "loop") => \/ pc = "reset" /\ idx' = 0
                             \/ pc = "refit" /\ idx' = idx + 1
        /\ (pc # "reset") => /\ base' = base /\ n_sources' = n_sources
                             /\ idx' \in {idx, idx + 1} ]_vars
C6_Witness ==
    /\ pc = "done" /\ iteration = 2 /\ idx = 2
    /\ FiniteFilter(demix_filter)
    /\ output = separate(call_input, Stack(demix_filter))

\* C8: separate(X, I) returns X, entry by entry and in X's shape, for the
\* identity given per bin and for the single N x N identity of _reset, on
\* every finite tensor the run holds; so the estimate after _reset is X.
SeparatesToItself(Z) ==
    /\ separate(Z, Single(Eye(Len(Z)))) = Z
    /\ separate(Z, Stack(Tile(Eye(Len(Z)), Len(Z[1])))) = Z
C8_SeparatorIdentity ==
    /\ \A Z \in {input, estimation, Y, Y_hat, output} :
          (Z # None /\ Finite3(Z)) => SeparatesToItself(Z)
    /\ (pc = "loop" /\ idx = 0) => estimation = input
C8_Witness ==
    /\ pc = "loop" /\ idx = 0 /\ estimation = input
    /\ Len(input) = 2 /\ Len(input[1]) = 2
    /\ \E j \in 1..Len(input[1][2]) : input[1][2][j].im # 0

\* C9: a run with no input fails in _reset, before any state tensor is
\* created or changed and before any update step runs.
C9_MissingInputFailsFirst ==
    (call_input = None /\ pc # "idle")
    => /\ pc \in {"reset", "failed"}
       /\ pc = "failed" => err = "AssertionError"
       /\ demix_filter = None /\ base = None /\ bases = None
       /\ activation = None /\ estimation = None
       /\ T = None /\ TV = None /\ U = None /\ Y = None
       /\ scale = None /\ Y_hat = None /\ output = None
       /\ idx = 0 /\ n_sources = 0
C9_Witness ==
    pc = "failed" /\ err = "AssertionError" /\ input = None /\ iteration >= 1

\* C10: update_space_model makes one left-to-right pass: the step for
\* source n forms W @ U_n from the filter as it stands (rows before n
\* already overwritten in this call, rows from n on not yet touched),
\* writes row n and no other row, and moves to n + 1.
C10_SequentialRows ==
    [][ /\ (pc = "space") => source_idx' = 1
        /\ (pc = "rows" /\ pc' = "rows")
            => /\ source_idx' = source_idx + 1
               /\ source_idx <= n_sources
               /\ \A i \in 1..Len(demix_filter) :
                     /\ demix_filter'[i][source_idx]
                           = RowOf(CMatMul(demix_filter[i], U[source_idx][i]),
                                   U[source_idx][i], source_idx)
                     /\ \A r \in 1..n_sources :
                           r # source_idx
                           => demix_filter'[i][r] = demix_filter[i][r]
        /\ (pc = "rows" /\ pc' = "scale") => source_idx = n_sources + 1
        /\ (pc = "rows" /\ pc' = "scale") => demix_filter' = demix_filter ]_vars
C10_Witness ==
    /\ pc = "rows" /\ source_idx = 3 /\ n_sources = 2
    /\ FiniteFilter(demix_filter)
    /\ \A r \in 1..2 : demix_filter[1][r] # Eye(2)[r]

\* The reference observation is zero in every frame of bin i.
ReferenceSilent(i) ==
    \A j \in 1..Len(input[reference_id + 1][i]) :
        input[reference_id + 1][i][j] = CZero
\* The energy of the estimate of source n at bin i, summed over frames.
Energy(n, i) == RSum(Eager([j \in 1..Len(Y[n][i]) |-> CAbs2(Y[n][i][j])]))

\* C7 (as claimed): where the reference is zero in all frames, the scale
\* returned by projection_back is 1, whatever the estimate is there.
C7_SilentReferenceGivesOne ==
    pc = "fn_done"
    => \A n \in 1..Len(scale) : \A i \in 1..Len(scale[n]) :
          ReferenceSilent(i) => scale[n][i] = COne

\* C7 (amended): the scale is 1 where the energy of the estimate (the
\* denominator) is exactly zero; where the reference is zero in all frames
\* and the estimate has energy, the scale is 0; in both cases it is finite.
C7_SilentEstimateGivesOne ==
    pc = "fn_done"
    => \A n \in 1..Len(scale) : \A i \in 1..Len(scale[n]) :
          /\ Energy(n, i) = 0 => scale[n][i] = COne
          /\ (ReferenceSilent(i) /\ Energy(n, i) > 0) => scale[n][i] = CZero
          /\ (ReferenceSilent(i) \/ Energy(n, i) = 0) => ~CIsNaN(scale[n][i])
C7_Witness ==
    /\ pc = "fn_done"
    /\ ReferenceSilent(1) /\ Energy(1, 1) > 0 /\ scale[1][1] = CZero
    /\ ~ReferenceSilent(2) /\ Energy(2, 2) = 0 /\ scale[2][2] = COne
    /\ Y[2][2][1] # CZero

=============================================================================
